---- MODULE Spec2Model ----
(***************************************************************************)
(* Model of BlackjackWithDoubleAndCountEnv                                 *)
(* (src/hw1/modified_blackjack_with_count.py): the shoe with its lazy      *)
(* reshuffle flag, the plus/minus running count, the hand helpers, and the *)
(* reset / step handlers with their rewards.                               *)
(*                                                                         *)
(* Rewards are floats in the source (-2.0 .. 2.0, and 1.5); the model      *)
(* holds every reward in halves, so 1.0 is 2 and 1.5 is 3.                 *)
(***************************************************************************)
EXTENDS Integers, Sequences, FiniteSets, TLC

\* ------------------------------------------------------------------ bounds
\* Steps followed after a reset (or after construction) in Spec.
MaxCalls == 1
\* The same in SpecLong, which follows an episode past its end.
MaxLongCalls == 2
\* The same in SpecShoe: enough to drain the shoe to a reshuffle.
MaxShoeCalls == 40
\* In SpecShoe, the draws from a full shoe for which the random source may
\* yield either end of the ranks left; later draws yield the highest.
BothEnds == 2
\* Steps followed in one episode of SpecPlay.
MaxPlayCalls == 8
\* Longest hand evaluated in SpecHand.
MaxHandLen == 3

\* ------------------------------------------------------- program constants
Ranks == 1..10
ReshuffleBelow == 15
DealerStandsAt == 17
BustAbove == 21
CopiesOfTen == 16
CopiesOfOther == 4
NaturalPayout == 3

\* Ranks the random source yields in Spec (a sample of every count weight,
\* the ace and the ten).
DrawRanks == {1, 5, 10}
\* Arguments passed to step: the three actions and a value outside them.
ActionInputs == 0..3
\* Ranks the random source yields in SpecPlay: the two lowest, which make the
\* longest hands, and a nine, which turns a soft hand hard.
PlayRanks == {1, 2, 9}

VARIABLES
    natural,                        \* self.natural
    sab,                            \* self.sab
    dealer,                         \* self.dealer (<<>> while None)
    player,                         \* self.player (<<>> while None)
    dealt,                          \* FALSE while dealer and player are None
    plus_minus_sum,                 \* self.plus_minus_sum
    amount_of_cards_lower_than_15,  \* self.amount_of_cards_lower_than_15
    deck,                           \* self.deck, as copies left of each rank
    folded_cards,                   \* self.folded_cards, as copies of each rank
    lastCall,                       \* "none", "reset" or "step"
    lastAction,                     \* argument of the last step call
    raised,                         \* the last call raised an exception
    obs,                            \* observation returned by the last call
    reward,                         \* reward returned by the last step, in halves
    done,                           \* done flag returned by the last step
    drawn,                          \* cards the last call took from the shoe
    reshuffles,                     \* reshuffles the last call performed
    inPlay,                         \* a reset happened and no step since returned done
    calls                           \* steps since the last reset (or construction)

vars == <<natural, sab, dealer, player, dealt, plus_minus_sum,
          amount_of_cards_lower_than_15, deck, folded_cards, lastCall,
          lastAction, raised, obs, reward, done, drawn, reshuffles, inPlay,
          calls>>

\* ------------------------------------------------------------ pure helpers
cmp(a, b) == (IF a > b THEN 1 ELSE 0) - (IF a < b THEN 1 ELSE 0)

plus_minus_compliance ==
    [r \in Ranks |-> IF r \in 2..6 THEN 1 ELSE IF r \in 7..9 THEN 0 ELSE -1]

_get_card_plus_minus_cost(card) == plus_minus_compliance[card]

RECURSIVE sum(_)
sum(hand) == IF hand = <<>> THEN 0 ELSE Head(hand) + sum(Tail(hand))

Contains(hand, r) == \E i \in 1..Len(hand) : hand[i] = r

\* _usable_ace with < in place of <=.
_usable_ace_Strict(hand) == Contains(hand, 1) /\ sum(hand) + 10 < BustAbove

_usable_ace(hand) == Contains(hand, 1) /\ sum(hand) + 10 <= BustAbove

_sum_hand(hand) == IF _usable_ace(hand) THEN sum(hand) + 10 ELSE sum(hand)

\* _is_bust with >= in place of >.
_is_bust_AtLimit(hand) == _sum_hand(hand) >= BustAbove

_is_bust(hand) == _sum_hand(hand) > BustAbove

_score(hand) == IF _is_bust(hand) THEN 0 ELSE _sum_hand(hand)

\* _is_natural comparing the ranks held, whatever their number.
_is_natural_AnyLength(hand) == {hand[i] : i \in 1..Len(hand)} = {1, 10}

_is_natural(hand) == Len(hand) = 2 /\ (hand = <<1, 10>> \/ hand = <<10, 1>>)

\* ------------------------------------------------------------------- shoe
\* The deck built from two copies of the thirteen ranks instead of four.
NewDeck_TwoSuits == [r \in Ranks |-> IF r = 10 THEN 8 ELSE 2]

NewDeck == [r \in Ranks |-> IF r = 10 THEN CopiesOfTen ELSE CopiesOfOther]

NoCards == [r \in Ranks |-> 0]

len(d) == d[1] + d[2] + d[3] + d[4] + d[5] + d[6] + d[7] + d[8] + d[9] + d[10]

\* The part of the object that _draw_card and the count updates touch.
Shoe == [deck |-> deck, folded_cards |-> folded_cards,
         lower |-> amount_of_cards_lower_than_15,
         plus_minus_sum |-> plus_minus_sum, reshuffles |-> 0]

\* The reshuffle without `self.folded_cards = []`.
Reshuffled_KeepsFolded(s) ==
    IF s.lower
    THEN [deck |-> NewDeck, folded_cards |-> s.folded_cards, lower |-> FALSE,
          plus_minus_sum |-> 0, reshuffles |-> s.reshuffles + 1]
    ELSE s

\* The reshuffle at the head of _draw_card.
Reshuffled(s) ==
    IF s.lower
    THEN [deck |-> NewDeck, folded_cards |-> NoCards, lower |-> FALSE,
          plus_minus_sum |-> 0, reshuffles |-> s.reshuffles + 1]
    ELSE s

\* _draw_card with the threshold test off by one (<= 15 in place of < 15).
_draw_card_AtThreshold(s, card) ==
    LET t == Reshuffled(s)
        d == [t.deck EXCEPT ![card] = @ - 1]
    IN  [t EXCEPT !.deck = d,
                  !.folded_cards = [t.folded_cards EXCEPT ![card] = @ + 1],
                  !.lower = IF len(d) <= ReshuffleBelow THEN TRUE ELSE t.lower]

\* _draw_card when np_random.choice returns `card`.
_draw_card(s, card) ==
    LET t == Reshuffled(s)
        d == [t.deck EXCEPT ![card] = @ - 1]
    IN  [t EXCEPT !.deck = d,
                  !.folded_cards = [t.folded_cards EXCEPT ![card] = @ + 1],
                  !.lower = IF len(d) < ReshuffleBelow THEN TRUE ELSE t.lower]

\* The count update adding the card's rank instead of its weight.
AddCost_Rank(s, card) == [s EXCEPT !.plus_minus_sum = @ + card]

\* self.plus_minus_sum += self._get_card_plus_minus_cost(card)
AddCost(s, card) ==
    [s EXCEPT !.plus_minus_sum = @ + _get_card_plus_minus_cost(card)]

\* Ranks np_random.choice can return from the list _draw_card draws from.
InDeck(s) == {r \in Ranks : Reshuffled(s).deck[r] > 0}

Lowest(S) == CHOOSE r \in S : \A q \in S : r <= q
Highest(S) == CHOOSE r \in S : \A q \in S : r >= q

\* The random source: in mode "ranks" it yields the ranks of DrawRanks, in
\* mode "play" those of PlayRanks; in mode "ends" the lowest or the highest
\* rank left for the first BothEnds draws from a full shoe, and the highest
\* rank left after them.
Choice(mode, s) ==
    IF mode = "ranks" THEN InDeck(s) \cap DrawRanks
    ELSE IF mode = "play" THEN InDeck(s) \cap PlayRanks
    ELSE IF len(Reshuffled(s).folded_cards) < BothEnds
         THEN {Lowest(InDeck(s)), Highest(InDeck(s))}
         ELSE {Highest(InDeck(s))}

\* The dealer loop drawing on 17 as well (<= 17 in place of < 17).
RECURSIVE DealerPlay_HitsOn17(_, _, _, _)
DealerPlay_HitsOn17(mode, s, hand, cards) ==
    IF _sum_hand(hand) <= DealerStandsAt
    THEN UNION { DealerPlay_HitsOn17(mode, AddCost(_draw_card(s, c), c),
                                     Append(hand, c), Append(cards, c))
                 : c \in Choice(mode, s) }
    ELSE {[shoe |-> s, dealer |-> hand, cards |-> cards]}

\* The dealer loop of stick and double: every way it can run to its end.
RECURSIVE DealerPlay(_, _, _, _)
DealerPlay(mode, s, hand, cards) ==
    IF _sum_hand(hand) < DealerStandsAt
    THEN UNION { DealerPlay(mode, AddCost(_draw_card(s, c), c),
                            Append(hand, c), Append(cards, c))
                 : c \in Choice(mode, s) }
    ELSE {[shoe |-> s, dealer |-> hand, cards |-> cards]}

\* _get_obs showing the dealer's last card (dealer[-1]) in place of the first.
_get_obs_LastCard(p, d, pms) ==
    <<_sum_hand(p), d[Len(d)], IF _usable_ace(p) THEN 1 ELSE 0, pms>>

_get_obs(p, d, pms) ==
    <<_sum_hand(p), d[1], IF _usable_ace(p) THEN 1 ELSE 0, pms>>

\* The adjustment without the `reward == 1.0` test: a natural always pays 1.5.
Adjusted_AutoWin(r, p, d) ==
    IF sab /\ _is_natural(p) /\ ~_is_natural(d) THEN 2
    ELSE IF ~sab /\ natural /\ _is_natural(p) THEN NaturalPayout
    ELSE r

\* The adjustment with the natural bonus tested before, and without, sab.
Adjusted_NaturalFirst(r, p, d) ==
    IF natural /\ _is_natural(p) /\ r = 2 THEN NaturalPayout
    ELSE IF sab /\ _is_natural(p) /\ ~_is_natural(d) THEN 2
    ELSE r

\* Reward adjustment after stick and double (same code in both branches).
Adjusted(r, p, d) ==
    IF sab /\ _is_natural(p) /\ ~_is_natural(d) THEN 2
    ELSE IF ~sab /\ natural /\ _is_natural(p) /\ r = 2 THEN NaturalPayout
    ELSE r

\* reward of the stick branch
StickReward(p, d) == Adjusted(2 * cmp(_score(p), _score(d)), p, d)

\* The double branch scored like stick, without the factor 2.
DoubleReward_Single(p, d) == Adjusted(2 * cmp(_score(p), _score(d)), p, d)

\* reward of the double branch: 2 * cmp(...), then the same adjustment
DoubleReward(p, d) == Adjusted(2 * (2 * cmp(_score(p), _score(d))), p, d)

\* reward of the hit branch
HitReward(p) == IF _is_bust(p) THEN -2 ELSE 0

\* ---------------------------------------------------------------- effects
SetShoe(s) ==
    /\ deck' = s.deck
    /\ folded_cards' = s.folded_cards
    /\ amount_of_cards_lower_than_15' = s.lower
    /\ plus_minus_sum' = s.plus_minus_sum
    /\ reshuffles' = s.reshuffles

Returns(call, a, o, r, dn, cards) ==
    /\ calls' = IF call = "reset" THEN 0 ELSE calls + 1
    /\ lastCall' = call
    /\ lastAction' = a
    /\ raised' = FALSE
    /\ obs' = o
    /\ reward' = r
    /\ done' = dn
    /\ drawn' = cards

Raises(a, cards) ==
    /\ lastCall' = "step"
    /\ lastAction' = a
    /\ raised' = TRUE
    /\ obs' = <<>>
    /\ reward' = 0
    /\ done' = FALSE
    /\ drawn' = cards
    /\ calls' = calls + 1
    /\ UNCHANGED <<dealer, player, dealt, inPlay>>

\* ------------------------------------------------------------------- Init
Init ==
    /\ natural \in BOOLEAN
    /\ sab \in BOOLEAN
    /\ dealer = <<>>
    /\ player = <<>>
    /\ dealt = FALSE
    /\ plus_minus_sum = 0
    /\ amount_of_cards_lower_than_15 = FALSE
    /\ deck = NewDeck
    /\ folded_cards = NoCards
    /\ lastCall = "none"
    /\ lastAction = 0
    /\ raised = FALSE
    /\ obs = <<>>
    /\ reward = 0
    /\ done = FALSE
    /\ drawn = <<>>
    /\ reshuffles = 0
    /\ inPlay = FALSE
    /\ calls = 0

\* ------------------------------------------------------------------ reset
\* Every deal reset can make: the shoe, count and hands it leaves.
Deal(mode) ==
    LET s0 == [deck |-> NewDeck, folded_cards |-> NoCards, lower |-> FALSE,
               plus_minus_sum |-> 0, reshuffles |-> 0]
    IN UNION { UNION { UNION { {
         [shoe |-> AddCost(AddCost(
                      _draw_card(_draw_card(
                          AddCost(_draw_card(_draw_card(s0, d1), d2), d1),
                          p1), p2), p1), p2),
          dealer |-> <<d1, d2>>,
          player |-> <<p1, p2>>] :
         p2 \in Choice(mode, _draw_card(_draw_card(_draw_card(s0, d1), d2), p1)) } :
         p1 \in Choice(mode, _draw_card(_draw_card(s0, d1), d2)) } :
         d2 \in Choice(mode, _draw_card(s0, d1)) } :
         d1 \in Choice(mode, s0) }

RanksDeals == Deal("ranks")
EndsDeals == Deal("ends")
PlayDeals == Deal("play")

\* reset extending the hands it finds instead of replacing them.
reset_StaleHands(mode) ==
    /\ \E deal \in (IF mode = "ranks" THEN RanksDeals
                    ELSE IF mode = "play" THEN PlayDeals ELSE EndsDeals) :
        /\ SetShoe(deal.shoe)
        /\ dealer' = dealer \o deal.dealer
        /\ player' = player \o deal.player
        /\ dealt' = TRUE
        /\ inPlay' = TRUE
        /\ Returns("reset", 0,
                   _get_obs(player \o deal.player, dealer \o deal.dealer,
                            deal.shoe.plus_minus_sum),
                   0, FALSE, deal.dealer \o deal.player)
    /\ UNCHANGED <<natural, sab>>

reset(mode) ==
    /\ \E deal \in (IF mode = "ranks" THEN RanksDeals
                    ELSE IF mode = "play" THEN PlayDeals ELSE EndsDeals) :
        /\ SetShoe(deal.shoe)
        /\ dealer' = deal.dealer
        /\ player' = deal.player
        /\ dealt' = TRUE
        /\ inPlay' = TRUE
        /\ Returns("reset", 0,
                   _get_obs(deal.player, deal.dealer, deal.shoe.plus_minus_sum),
                   0, FALSE, deal.dealer \o deal.player)
    /\ UNCHANGED <<natural, sab>>

\* ------------------------------------------------------------------- step
\* step without the assert: an action outside {0,1,2} falls through every
\* branch and comes back as a finished step.
StepRejected_Silent(n) ==
    /\ calls < n
    /\ dealt
    /\ \E action \in ActionInputs \ {0, 1, 2} :
        /\ Returns("step", action, _get_obs(player, dealer, plus_minus_sum),
                   0, TRUE, <<>>)
        /\ reshuffles' = 0
        /\ inPlay' = FALSE
    /\ UNCHANGED <<natural, sab, plus_minus_sum, amount_of_cards_lower_than_15,
                   deck, folded_cards, dealer, player, dealt>>

\* assert self.action_space.contains(action)
StepRejected(n) ==
    /\ calls < n
    /\ \E action \in ActionInputs \ {0, 1, 2} :
        /\ Raises(action, <<>>)
        /\ reshuffles' = 0
    /\ UNCHANGED <<natural, sab, plus_minus_sum, amount_of_cards_lower_than_15,
                   deck, folded_cards>>

\* action == 1
StepHit(mode, n) ==
    /\ calls < n
    /\ \E card \in Choice(mode, Shoe) :
        LET s == AddCost(_draw_card(Shoe, card), card)
            p == Append(player, card)
        IN /\ SetShoe(s)
           /\ IF dealt
              THEN /\ player' = p
                   /\ UNCHANGED <<dealer, dealt>>
                   /\ inPlay' = (inPlay /\ ~_is_bust(p))
                   /\ Returns("step", 1, _get_obs(p, dealer, s.plus_minus_sum),
                              HitReward(p), _is_bust(p),
                              <<card>>)
              ELSE Raises(1, <<card>>)     \* None has no append
    /\ UNCHANGED <<natural, sab>>

\* The stick branch on an object whose hands start as empty lists instead of
\* None: before any reset the dealer loop runs from the empty hand.
StepStick_EmptyHands(mode, n) ==
    /\ calls < n
    /\ \E run \in DealerPlay(mode, Shoe, dealer, <<>>) :
         /\ SetShoe(run.shoe)
         /\ dealer' = run.dealer
         /\ UNCHANGED <<player, dealt>>
         /\ inPlay' = FALSE
         /\ Returns("step", 0,
                    _get_obs(player, run.dealer, run.shoe.plus_minus_sum),
                    StickReward(player, run.dealer),
                    TRUE, run.cards)
    /\ UNCHANGED <<natural, sab>>

\* action == 0
StepStick(mode, n) ==
    /\ calls < n
    /\ IF dealt
       THEN \E run \in DealerPlay(mode, Shoe, dealer, <<>>) :
            /\ SetShoe(run.shoe)
            /\ dealer' = run.dealer
            /\ UNCHANGED <<player, dealt>>
            /\ inPlay' = FALSE
            /\ Returns("step", 0,
                       _get_obs(player, run.dealer, run.shoe.plus_minus_sum),
                       StickReward(player, run.dealer),
                       TRUE, run.cards)
       ELSE /\ Raises(0, <<>>)             \* _sum_hand(None)
            /\ reshuffles' = 0
            /\ UNCHANGED <<plus_minus_sum, amount_of_cards_lower_than_15,
                           deck, folded_cards>>
    /\ UNCHANGED <<natural, sab>>

\* action == 2
StepDouble(mode, n) ==
    /\ calls < n
    /\ \E card \in Choice(mode, Shoe) :
        LET s == AddCost(_draw_card(Shoe, card), card)
            p == Append(player, card)
        IN IF dealt
           THEN \E run \in DealerPlay(mode, s, dealer, <<card>>) :
                /\ SetShoe(run.shoe)
                /\ player' = p
                /\ dealer' = run.dealer
                /\ UNCHANGED dealt
                /\ inPlay' = FALSE
                /\ Returns("step", 2,
                           _get_obs(p, run.dealer, run.shoe.plus_minus_sum),
                           DoubleReward(p, run.dealer),
                           TRUE, run.cards)
           ELSE /\ SetShoe(s)
                /\ Raises(2, <<card>>)     \* None has no append
    /\ UNCHANGED <<natural, sab>>

step(mode, n) ==
    \/ StepRejected(n)
    \/ StepHit(mode, n)
    \/ StepStick(mode, n)
    \/ StepDouble(mode, n)

\* --------------------------------------------------------- specifications
Next ==
    \/ reset("ranks")
    \/ step("ranks", MaxCalls)

Spec == Init /\ [][Next]_vars

\* Episodes followed one step further, past their end.
NextLong ==
    \/ reset("ranks")
    \/ step("ranks", MaxLongCalls)

SpecLong == Init /\ [][NextLong]_vars

\* The shoe followed until it reshuffles, on an environment constructed with
\* the default flags.
InitShoe == Init /\ ~natural /\ ~sab

NextShoe ==
    \/ reset("ends")
    \/ step("ends", MaxShoeCalls)

SpecShoe == InitShoe /\ [][NextShoe]_vars

\* The environment used as intended: reset, then steps with an action of
\* {0,1,2} until the first done, then reset again.
NextPlay ==
    \/ ~inPlay /\ reset("play")
    \/ inPlay /\ StepHit("play", MaxPlayCalls)
    \/ inPlay /\ StepStick("play", MaxPlayCalls)
    \/ inPlay /\ StepDouble("play", MaxPlayCalls)

SpecPlay == InitShoe /\ [][NextPlay]_vars

\* The hand helpers on their own: any hand of up to MaxHandLen ranks is
\* passed to _sum_hand, _usable_ace, _is_bust and _is_natural, and what they
\* return is kept in obs.  The hand is held in player.
Hands == UNION {[1..k -> Ranks] : k \in 0..MaxHandLen}

InitHand ==
    /\ natural = FALSE
    /\ sab = FALSE
    /\ dealer = <<>>
    /\ player \in Hands
    /\ dealt = FALSE
    /\ plus_minus_sum = 0
    /\ amount_of_cards_lower_than_15 = FALSE
    /\ deck = NewDeck
    /\ folded_cards = NoCards
    /\ lastCall = "none"
    /\ lastAction = 0
    /\ raised = FALSE
    /\ obs = <<>>
    /\ reward = 0
    /\ done = FALSE
    /\ drawn = <<>>
    /\ reshuffles = 0
    /\ inPlay = FALSE
    /\ calls = 0

EvaluateHand ==
    /\ lastCall = "none"
    /\ lastCall' = "hand"
    /\ obs' = <<_sum_hand(player), _usable_ace(player), _is_bust(player),
                _is_natural(player)>>
    /\ UNCHANGED <<natural, sab, dealer, player, dealt, plus_minus_sum,
                   amount_of_cards_lower_than_15, deck, folded_cards,
                   lastAction, raised, reward, done, drawn, reshuffles,
                   inPlay, calls>>

SpecHand == InitHand /\ [][EvaluateHand]_vars

\* ------------------------------------------------------- claim vocabulary
\* A step call has just returned or raised (reset sets calls to 0).
StepCalled == calls' = calls + 1

\* Sum of the count weights of a collection of cards held per rank.
WeightSum(f) ==
    f[1] * plus_minus_compliance[1] + f[2] * plus_minus_compliance[2]
    + f[3] * plus_minus_compliance[3] + f[4] * plus_minus_compliance[4]
    + f[5] * plus_minus_compliance[5] + f[6] * plus_minus_compliance[6]
    + f[7] * plus_minus_compliance[7] + f[8] * plus_minus_compliance[8]
    + f[9] * plus_minus_compliance[9] + f[10] * plus_minus_compliance[10]

\* ------------------------------------------------------------------ claims
\* C1: step is rejected whenever the episode is not in play: once a step has
\* returned done, every further step raises until reset is called.
C1_StepAfterDoneRaises ==
    [][(dealt /\ ~inPlay /\ StepCalled /\ lastAction' \in {0, 1, 2})
         => raised']_vars

\* C2: in every state the running count is the sum of the count weights of
\* all cards drawn since the last reshuffle, the dealer's hole card included.
C2_CountIsSumOfDrawn == plus_minus_sum = WeightSum(folded_cards)

\* What the three += statements of reset add to the count for a deal.
ResetAdds(d, p) ==
    _get_card_plus_minus_cost(d[1]) + _get_card_plus_minus_cost(p[1])
    + _get_card_plus_minus_cost(p[2])

\* C3: reset never sets the count to 0: called while the shoe needs no
\* reshuffle it keeps the shoe's contents and the accumulated count, and only
\* takes the dealt cards out and adds their weights.
C3_ResetKeepsCount ==
    [][(lastCall' = "reset" /\ ~amount_of_cards_lower_than_15)
         => /\ len(deck') = len(deck) - 4
            /\ plus_minus_sum' = plus_minus_sum + ResetAdds(dealer', player')]_vars

\* C4: a draw reshuffles exactly when it is requested with fewer than 15
\* cards in the shoe: then the shoe is refilled, the discards are cleared and
\* the count is 0 before the drawn card is taken and counted, so 51 cards
\* are left; with 15 or more cards the draw takes one card and nothing else,
\* also when it leaves 14.  (Stated on the one draw of a hit.)
C4_ReshuffleBelow15 ==
    [][(StepCalled /\ lastAction' = 1)
         => LET card == drawn'[1]
            IN IF len(deck) < 15
               THEN /\ reshuffles' = 1
                    /\ len(deck') = 51
                    /\ deck' = [NewDeck EXCEPT ![card] = @ - 1]
                    /\ folded_cards' = [NoCards EXCEPT ![card] = 1]
                    /\ plus_minus_sum' = plus_minus_compliance[card]
               ELSE /\ reshuffles' = 0
                    /\ deck' = [deck EXCEPT ![card] = @ - 1]
                    /\ folded_cards' = [folded_cards EXCEPT ![card] = @ + 1]
                    /\ plus_minus_sum' =
                         plus_minus_sum + plus_minus_compliance[card]]_vars

\* A hit on a dealt hand found 14 cards in the shoe and reshuffled.
C4_Witness ==
    /\ dealt /\ lastCall = "step" /\ lastAction = 1 /\ ~raised
    /\ reshuffles = 1 /\ len(deck) = 51

\* C5: a step with an action outside {0,1,2} raises and changes nothing: no
\* card is drawn, and shoe, discards, count and both hands stay as they were.
C5_InvalidActionRejected ==
    [][(StepCalled /\ lastAction' \notin {0, 1, 2})
         => /\ raised'
            /\ drawn' = <<>>
            /\ UNCHANGED <<deck, folded_cards, plus_minus_sum,
                           amount_of_cards_lower_than_15, player, dealer,
                           dealt>>]_vars

\* An action outside {0,1,2} was rejected on a dealt episode.
C5_Witness ==
    dealt /\ lastCall = "step" /\ lastAction \notin {0, 1, 2} /\ raised

\* C6: before any reset, a step with action 0, 1 or 2 raises; it returns no
\* observation and no reward.
C6_StepBeforeResetRaises ==
    (~dealt /\ lastCall = "step" /\ lastAction \in {0, 1, 2})
      => (raised /\ obs = <<>>)

\* A stick was tried on a newly constructed environment.
C6_Witness ==
    ~dealt /\ lastCall = "step" /\ lastAction = 0 /\ raised

\* C7: a hit in play draws exactly one card into the player's hand and leaves
\* the dealer's hand alone; a new total over 21 gives done with reward -1,
\* any other total gives not done with reward 0, whatever natural and sab are.
C7_HitDrawsOneCard ==
    [][(inPlay /\ StepCalled /\ lastAction' = 1)
         => /\ ~raised'
            /\ Len(drawn') = 1
            /\ player' = Append(player, drawn'[1])
            /\ dealer' = dealer
            /\ IF _sum_hand(player') > 21
               THEN done' /\ reward' = -2
               ELSE ~done' /\ reward' = 0]_vars

\* A hit busted the player with both rule flags set.
C7_Witness ==
    /\ lastCall = "step" /\ lastAction = 1 /\ ~raised /\ natural /\ sab
    /\ _sum_hand(player) > 21 /\ done /\ reward = -2

\* The player stuck on a two-card natural under natural = true, sab = false,
\* and the dealer's final hand is not a natural.
StuckOnNatural ==
    /\ lastCall = "step" /\ lastAction = 0 /\ ~raised
    /\ Len(player) = 2 /\ sum(player) = 11 /\ Contains(player, 1)
    /\ ~(Len(dealer) = 2 /\ sum(dealer) = 11 /\ Contains(dealer, 1))

\* C8 as stated: with natural = true and sab = false, sticking on a natural
\* pays 1.5 whatever the final cards of a dealer without a natural are.
C8_NaturalAlwaysPaysBonus ==
    (StuckOnNatural /\ natural /\ ~sab) => reward = 3

\* C8, amended: with natural = true and sab = false, sticking on a natural
\* against a dealer without a natural pays 1.5 unless the dealer's final
\* total is 21, and then it pays 0.
C8_NaturalPaysBonusUnlessTie ==
    (StuckOnNatural /\ natural /\ ~sab)
      => reward = (IF _sum_hand(dealer) = 21 THEN 0 ELSE 3)

\* A natural was paid 1.5 against a dealer who drew to a total below 21.
C8_Witness ==
    /\ StuckOnNatural /\ natural /\ ~sab
    /\ Len(dealer) >= 3 /\ reward = 3

\* C9: with sab = true no step pays 1.5, and sticking on a natural pays +1
\* against any dealer hand that is not a natural (a 21 of three or more cards
\* included) and 0 against a dealer natural.
C9_SabNaturalPaysOne ==
    (sab /\ lastCall = "step" /\ ~raised)
      => /\ reward # 3
         /\ (lastAction = 0 /\ Len(player) = 2 /\ sum(player) = 11
                /\ Contains(player, 1))
              => reward = (IF Len(dealer) = 2 /\ sum(dealer) = 11
                                /\ Contains(dealer, 1)
                           THEN 0 ELSE 2)

\* Under sab and natural both set, a natural was paid +1 against a dealer
\* who reached 21 with three or more cards.
C9_Witness ==
    /\ StuckOnNatural /\ sab /\ natural
    /\ Len(dealer) >= 3 /\ _sum_hand(dealer) = 21 /\ reward = 2

\* C10: a double in play draws exactly one card to the player even when it
\* busts them, plays the dealer out to 17 or more, returns done, and pays
\* 2 * cmp(score(player), score(dealer)) with a busted hand scoring 0: a
\* busted player gets -2 against a dealer who did not bust and 0 otherwise.
C10_DoubleScoresTwice ==
    [][(inPlay /\ StepCalled /\ lastAction' = 2)
         => LET ps == IF _sum_hand(player') > 21 THEN 0 ELSE _sum_hand(player')
                ds == IF _sum_hand(dealer') > 21 THEN 0 ELSE _sum_hand(dealer')
            IN /\ ~raised' /\ done'
               /\ player' = Append(player, drawn'[1])
               /\ dealer' = dealer \o Tail(drawn')
               /\ _sum_hand(dealer') >= 17
               /\ reward' = 4 * cmp(ps, ds)
               /\ (ps = 0 /\ ds > 0) => reward' = -4
               /\ (ps = 0 /\ ds = 0) => reward' = 0]_vars

\* A double busted the player, the dealer stood without busting, and the
\* step paid -2.
C10_Witness ==
    /\ lastCall = "step" /\ lastAction = 2 /\ ~raised /\ done
    /\ _sum_hand(player) > 21 /\ _sum_hand(dealer) <= 21 /\ reward = -4

\* C11: the dealer play-out of stick and double ends after finitely many
\* draws (at most 17 minus the sum of the two dealt cards), with a dealer
\* total of 17 or more, hard or soft; every card was drawn on a total below
\* 17, and a dealer already at 17 or more draws nothing.
C11_DealerStandsAt17 ==
    [][(dealt /\ StepCalled /\ ~raised' /\ lastAction' \in {0, 2})
         => LET n0 == Len(dealer)
                n1 == Len(dealer')
            IN /\ n1 >= n0
               /\ SubSeq(dealer', 1, n0) = dealer
               /\ n1 - n0 <= 17 - sum(dealer) \/ n1 = n0
               /\ _sum_hand(dealer') >= 17
               /\ \A k \in n0..(n1 - 1) : _sum_hand(SubSeq(dealer', 1, k)) < 17
               /\ _sum_hand(dealer) >= 17 => dealer' = dealer]_vars

\* A stick made the dealer draw and stop on a soft 17.
C11_Witness ==
    /\ lastCall = "step" /\ lastAction = 0 /\ ~raised
    /\ Len(dealer) >= 3 /\ _sum_hand(dealer) = 17 /\ sum(dealer) = 7

\* C13: after any reset, whatever state it was called in, the dealer's hand
\* and the player's hand are exactly the two cards each that this reset drew,
\* and these four cards are the only ones out of the shoe.
C13_ResetDealsFreshHands ==
    [][(lastCall' = "reset")
         => /\ Len(drawn') = 4
            /\ dealer' = SubSeq(drawn', 1, 2)
            /\ player' = SubSeq(drawn', 3, 4)
            /\ len(folded_cards') = 4
            /\ len(deck') = 48]_vars

\* A reset has dealt two cards to each hand.
C13_Witness ==
    /\ lastCall = "reset" /\ Len(player) = 2 /\ Len(dealer) = 2
    /\ drawn = dealer \o player

\* C16: for every natural and sab, a double in play pays -2, 0 or +2, never
\* the 1.5 bonus nor the forced +1; a step that pays 1.5 is a stick.
C16_DoublePaysEven ==
    [][(StepCalled /\ ~raised')
         => /\ (inPlay /\ lastAction' = 2) => reward' \in {-4, 0, 4}
            /\ reward' = 3 => lastAction' = 0]_vars

\* Under sab, a double on a two-card natural drew a ten and won: it paid +2.
C16_Witness ==
    /\ lastCall = "step" /\ lastAction = 2 /\ ~raised /\ sab
    /\ Len(player) = 3 /\ SubSeq(player, 1, 2) \in {<<1, 10>>, <<10, 1>>}
    /\ reward = 4

\* C17: the upcard of every observation is the first card the last reset
\* dealt to the dealer, and no step changes it.
C17_UpcardIsFirstDealerCard ==
    [][/\ (lastCall' = "reset") => obs'[2] = drawn'[1]
       /\ (dealt /\ StepCalled) => dealer'[1] = dealer[1]
       /\ (dealt /\ StepCalled /\ ~raised') => obs'[2] = dealer[1]]_vars

\* A stick made the dealer draw, and the observation still shows the first
\* card, which differs from the last one.
C17_Witness ==
    /\ lastCall = "step" /\ lastAction = 0 /\ ~raised /\ Len(dealer) >= 3
    /\ obs[2] = dealer[1] /\ dealer[1] # dealer[Len(dealer)]

\* C20: a step that raises, for an action outside {0,1,2} or because no reset
\* happened yet, leaves the shoe, the discards and the count as they were.
C20_FailedStepDrawsNothing ==
    [][(StepCalled /\ raised')
         => UNCHANGED <<deck, folded_cards, plus_minus_sum>>]_vars

\* Number of cards of rank r in a hand, and the hand's sum taken rank by rank.
RankCount(hand, r) == Cardinality({i \in 1..Len(hand) : hand[i] = r})

SumByRank(hand) ==
    RankCount(hand, 1) + 2 * RankCount(hand, 2) + 3 * RankCount(hand, 3)
    + 4 * RankCount(hand, 4) + 5 * RankCount(hand, 5) + 6 * RankCount(hand, 6)
    + 7 * RankCount(hand, 7) + 8 * RankCount(hand, 8) + 9 * RankCount(hand, 9)
    + 10 * RankCount(hand, 10)

\* C14: for every hand of ranks 1..10, the total is sum + 10 when the hand
\* holds an ace and sum + 10 <= 21, and sum otherwise; the ace is usable
\* exactly in the first case; the hand is bust iff its total is over 21; it
\* is a natural iff it is exactly an ace and a ten, so never with three or
\* more cards.
C14_HandHelpers ==
    (lastCall = "hand")
      => LET soft == RankCount(player, 1) > 0 /\ SumByRank(player) + 10 <= 21
         IN /\ obs[1] = (IF soft THEN SumByRank(player) + 10
                                   ELSE SumByRank(player))
            /\ obs[2] = soft
            /\ obs[3] = (obs[1] > 21)
            /\ obs[4] = (/\ Len(player) = 2
                          /\ RankCount(player, 1) = 1
                          /\ RankCount(player, 10) = 1)
            /\ Len(player) >= 3 => obs[4] = FALSE

\* A hard 21 of three cards was evaluated: no usable ace, not bust, not a
\* natural.
C14_Witness ==
    /\ lastCall = "hand" /\ player = <<10, 1, 10>>
    /\ obs = <<21, FALSE, FALSE, FALSE>>

\* The shoe and the discards together hold the 52 cards, rank by rank.
Conserved ==
    /\ \A r \in 1..10 :
         /\ deck[r] >= 0
         /\ folded_cards[r] >= 0
         /\ deck[r] + folded_cards[r] = (IF r = 10 THEN 16 ELSE 4)
    /\ len(deck) + len(folded_cards) = 52
    /\ len(deck) > 0

DealerTotal(h, k) == _sum_hand(SubSeq(h, 1, k))

\* The first k cards hold an ace that counts 11.
SoftAt(h, k) ==
    /\ RankCount(SubSeq(h, 1, k), 1) > 0
    /\ SumByRank(SubSeq(h, 1, k)) + 10 <= 21

\* C15 as stated: in the dealer play-out the dealer's total after a draw is
\* never lower than before that draw.
C15_DealerTotalNeverDrops ==
    [][(dealt /\ StepCalled /\ ~raised' /\ lastAction' \in {0, 2})
         => \A k \in Len(dealer)..(Len(dealer') - 1) :
              DealerTotal(dealer', k + 1) >= DealerTotal(dealer', k)]_vars

\* C15, amended: in the dealer play-out every draw raises the sum of the
\* dealer's ranks, and the dealer's total after a draw is never lower than
\* before it unless the draw turns a usable ace (counted 11) into an ace
\* counted 1.
C15_DealerTotalDropsOnlySoftToHard ==
    [][(dealt /\ StepCalled /\ ~raised' /\ lastAction' \in {0, 2})
         => \A k \in Len(dealer)..(Len(dealer') - 1) :
              /\ SumByRank(SubSeq(dealer', 1, k + 1))
                   > SumByRank(SubSeq(dealer', 1, k))
              /\ \/ DealerTotal(dealer', k + 1) >= DealerTotal(dealer', k)
                 \/ SoftAt(dealer', k) /\ ~SoftAt(dealer', k + 1)]_vars

\* A stick made the dealer draw a card that lowered a soft total.
C15_Witness ==
    /\ lastCall = "step" /\ lastAction = 0 /\ ~raised
    /\ \E k \in 2..(Len(dealer) - 1) :
         /\ DealerTotal(dealer, k + 1) < DealerTotal(dealer, k)
         /\ SoftAt(dealer, k) /\ ~SoftAt(dealer, k + 1)

\* C19: used as intended (reset, then steps until the first done), no call
\* reshuffles: the shoe never holds fewer than 15 cards, the flag is never
\* set, and the cards out of the shoe are exactly those of the two hands, all
\* from the 52-card shoe that reset built.
C19_NoReshuffleInEpisode ==
    (lastCall \in {"reset", "step"})
      => /\ reshuffles = 0
         /\ ~amount_of_cards_lower_than_15
         /\ len(deck) >= 15
         /\ \A r \in 1..10 :
              /\ folded_cards[r] = RankCount(dealer \o player, r)
              /\ deck[r] + folded_cards[r] = (IF r = 10 THEN 16 ELSE 4)

\* An episode ended with ten or more cards out of the shoe.
C19_Witness ==
    /\ lastCall = "step" /\ done /\ ~inPlay /\ len(folded_cards) >= 10
    /\ reshuffles = 0

====
